---- MODULE Spec2Model ----
(***************************************************************************)
(* Model of prayer_bot.py: a Telegram bot that turns a typed place name or *)
(* a shared location into the day's prayer times.                          *)
(*                                                                         *)
(* The state is the ConversationHandler's per-user conversation table, the *)
(* update the polling loop has delivered and not yet processed, and a log  *)
(* of the round that update caused (external calls and replies, in order). *)
(* What the previous resolved round fetched and reported is remembered in   *)
(* `last` by the specification that checks rounds against each other.      *)
(* A third specification runs a handler call by call and reply by reply:   *)
(* `running` holds the handlers in progress, `outbox` the replies sent.    *)
(* Every handler is one action; what the geocoder and the timings API      *)
(* answer is drawn from small sets inside the action.                      *)
(***************************************************************************)
EXTENDS Integers, Sequences, FiniteSets, TLC

VARIABLES conversations, update, round, last, running, outbox, nrounds

vars == <<conversations, update, round, last, running, outbox, nrounds>>

stepvars == <<running, outbox, nrounds>>

----------------------------------------------------------------------------
(* Bounds of the model *)

MaxTextLen == 2

MaxSchedLen == 2

MaxRounds == 3

----------------------------------------------------------------------------
(* Program constants *)

LOCATION == 0

CanonicalOrder == <<"Fajr", "Sunrise", "Dhuhr", "Asr", "Maghrib", "Isha">>

CanonicalPrayers == {CanonicalOrder[i] : i \in 1..Len(CanonicalOrder)}

UnknownCity == "Unknown City"

----------------------------------------------------------------------------
(* Input domains *)

Users == {"u1", "u2"}

Whitespace == {" "}

Chars == Whitespace \cup {"a"}

Texts == UNION {[1..n -> Chars] : n \in 0..MaxTextLen}

Lats == {0, 48}

Lons == {-74, 0}

Addresses == {"", "Paris, France"}

Cities == {"Paris"}

ScheduleKeys == CanonicalPrayers \cup {"Imsak"}

TimeVariants == {1, 2}

----------------------------------------------------------------------------
(* Python values *)

PyNone == [t |-> "None", v |-> 0]

PyFloat(x) == [t |-> "float", v |-> x]

PyNoStr == [t |-> "None", s |-> ""]

PyStr(x) == [t |-> "str", s |-> x]

\* bool(x) of an optional float: None and 0.0 are false
Truthy(x) == x.t = "float" /\ x.v # 0

\* bool(x) of an optional string: None and "" are false
TruthyStr(x) == x.t = "str" /\ x.s # ""

\* a JSON value as json() decodes it, as far as the handler looks at it:
\* its type, its items when it is an object, and its truth value
JsonNull == [t |-> "None", items |-> <<>>, truthy |-> FALSE]

JsonDict(items) == [t |-> "dict", items |-> items, truthy |-> items # <<>>]

JsonOther(t, truthy) == [t |-> t, items |-> <<>>, truthy |-> truthy]

RECURSIVE Str(_)
Str(s) == IF s = <<>> THEN "" ELSE Head(s) \o Str(Tail(s))

RECURSIVE LStrip(_)
LStrip(s) ==
    IF s # <<>> /\ Head(s) \in Whitespace THEN LStrip(Tail(s)) ELSE s

RECURSIVE RStrip(_)
RStrip(s) ==
    IF s # <<>> /\ s[Len(s)] \in Whitespace
    THEN RStrip(SubSeq(s, 1, Len(s) - 1))
    ELSE s

StripUnchanged(s) == s

\* str.strip()
Strip(s) == RStrip(LStrip(s))

----------------------------------------------------------------------------
(* What the outside world can answer *)

\* geolocator.geocode(name): raises, returns None, or returns a Location
NoGeo == [kind |-> "not_called", lat |-> 0, lon |-> 0, address |-> ""]

GeoOutcomes ==
    {[kind |-> k, lat |-> 0, lon |-> 0, address |-> ""] : k \in {"raise", "none"}}
    \cup [kind : {"match"}, lat : Lats, lon : Lons, address : Addresses]

\* geolocator.reverse("lat, lon"): raises, returns None, or returns a Location
\* whose raw address may or may not hold a city
NoRev == [kind |-> "not_called", hasCity |-> FALSE, city |-> "", address |-> ""]

RevOutcomes ==
    {[kind |-> k, hasCity |-> FALSE, city |-> "", address |-> ""] :
        k \in {"raise", "none"}}
    \cup [kind : {"result"}, hasCity : {FALSE}, city : {""}, address : Addresses]
    \cup [kind : {"result"}, hasCity : {TRUE}, city : Cities, address : Addresses]

TimeOf(variant, name) ==
    IF variant = 1
    THEN CASE name = "Fajr" -> "05:00" [] name = "Sunrise" -> "06:30"
           [] name = "Dhuhr" -> "12:15" [] name = "Asr" -> "15:45"
           [] name = "Maghrib" -> "18:20" [] name = "Isha" -> "19:50"
           [] OTHER -> "04:50"
    ELSE CASE name = "Fajr" -> "04:11" [] name = "Sunrise" -> "05:52"
           [] name = "Dhuhr" -> "13:01" [] name = "Asr" -> "16:48"
           [] name = "Maghrib" -> "20:09" [] name = "Isha" -> "21:43"
           [] OTHER -> "04:01"

\* key orders of a timings object: every order of up to MaxSchedLen distinct
\* keys, the API's usual order, and two full objects in another order
KeyOrders ==
    {s \in UNION {[1..n -> ScheduleKeys] : n \in 0..MaxSchedLen} :
        \A i, j \in 1..Len(s) : i # j => s[i] # s[j]}
    \cup {<<"Fajr", "Sunrise", "Dhuhr", "Asr", "Maghrib", "Isha", "Imsak">>,
          <<"Imsak", "Fajr", "Sunrise", "Dhuhr", "Asr", "Maghrib", "Isha">>,
          <<"Isha", "Maghrib", "Asr", "Imsak", "Dhuhr", "Sunrise", "Fajr">>}

Schedules ==
    {[i \in 1..Len(ks) |-> <<ks[i], TimeOf(v, ks[i])>>] :
        ks \in KeyOrders, v \in TimeVariants}

\* the value under data.timings of a well-formed body
TimingsValues ==
    {JsonDict(s) : s \in Schedules}
    \cup {JsonNull, JsonOther("list", FALSE), JsonOther("list", TRUE),
          JsonOther("str", TRUE), JsonOther("float", TRUE)}

\* requests.get(...) and what follows: the request fails, the status is an
\* error, the body is no JSON, it lacks data or data.timings, or it has them
NoResp == [kind |-> "not_called", timings |-> JsonNull]

RespOutcomes ==
    {[kind |-> k, timings |-> JsonNull] :
        k \in {"transport_error", "http_error", "not_json", "no_data", "no_timings"}}
    \cup {[kind |-> "ok", timings |-> t] : t \in TimingsValues}

----------------------------------------------------------------------------
(* The log of a round: external calls and replies, in program order *)

Event(ev, id, lat, lon, text, lines, markup) ==
    [ev |-> ev, id |-> id, lat |-> lat, lon |-> lon, text |-> text,
     lines |-> lines, markup |-> markup]

\* update.message.reply_text(<message id>, reply_markup=markup)
Reply(id, markup) == Event("reply", id, PyNone, PyNone, "", <<>>, markup)

\* the report: its heading's label and its "<prayer>: <time>" lines
ReplyReport(label, lines) ==
    Event("reply", "report", PyNone, PyNone, label, lines, "remove_keyboard")

GeocodeCall(name) == Event("geocode", "", PyNone, PyNone, name, <<>>, "")

ReverseCall(lat, lon) == Event("reverse", "", lat, lon, "", <<>>, "")

FetchCall(lat, lon) == Event("fetch", "", lat, lon, "", <<>>, "")

\* what a handler did: its log, whether it raised, and the state it returned
\* ({} when it returned None or raised)
Done(trace, ret) == [trace |-> trace, fault |-> FALSE, ret |-> ret]

Raised(trace) == [trace |-> trace, fault |-> TRUE, ret |-> {}]

----------------------------------------------------------------------------
(* The handlers *)

start ==
    Done(<<Reply("welcome", "share_keyboard")>>, {LOCATION})

help_command_ends ==
    Done(<<Reply("help", "")>>, {LOCATION + 1})

help_command ==
    Done(<<Reply("help", "")>>, {})

\* every exception of the request, of raise_for_status, of json() and of the
\* two subscripts is caught and gives None
get_prayer_times(resp) ==
    IF resp.kind = "ok" THEN resp.timings ELSE JsonNull

get_location_coordinates_uncaught(geo) ==
    CASE geo.kind = "match" ->
            [raised |-> FALSE, lat |-> PyFloat(geo.lat), lon |-> PyFloat(geo.lon),
             address |-> PyStr(geo.address)]
      [] geo.kind = "none" ->
            [raised |-> FALSE, lat |-> PyNone, lon |-> PyNone, address |-> PyNoStr]
      [] OTHER ->
            [raised |-> TRUE, lat |-> PyNone, lon |-> PyNone, address |-> PyNoStr]

get_location_coordinates(geo) ==
    IF geo.kind = "match"
    THEN [raised |-> FALSE, lat |-> PyFloat(geo.lat), lon |-> PyFloat(geo.lon),
          address |-> PyStr(geo.address)]
    ELSE [raised |-> FALSE, lat |-> PyNone, lon |-> PyNone, address |-> PyNoStr]

NotFoundNever(latitude, longitude) == FALSE

\* not latitude or not longitude
NotFound(latitude, longitude) == ~Truthy(latitude) \/ ~Truthy(longitude)

ReportLinesUnfiltered(items) == items

\* the loop over prayer_times.items(): the object's own order, canonical names only
RECURSIVE ReportLines(_)
ReportLines(items) ==
    IF items = <<>> THEN <<>>
    ELSE IF Head(items)[1] \in CanonicalPrayers
         THEN <<Head(items)>> \o ReportLines(Tail(items))
         ELSE ReportLines(Tail(items))

LocationPrompt == Reply("location_prompt", "share_keyboard")

FetchAndReportNoPrompt(pre, latitude, longitude, full_address, city, resp) ==
    LET prayer_times == get_prayer_times(resp)
        called == pre \o <<FetchCall(latitude, longitude)>>
        label == IF TruthyStr(full_address) THEN full_address.s ELSE city
    IN  IF prayer_times.truthy
        THEN IF prayer_times.t = "dict"
             THEN Done(called \o <<ReplyReport(label, ReportLines(prayer_times.items))>>,
                       {LOCATION})
             ELSE Raised(called)
        ELSE Done(called \o <<Reply("unavailable", "")>>, {LOCATION})

FetchAndReportStale(pre, latitude, longitude, full_address, city, resp) ==
    LET prayer_times == get_prayer_times(resp)
        lat == IF last.lat.t = "float" THEN last.lat ELSE latitude
        lon == IF last.lon.t = "float" THEN last.lon ELSE longitude
        called == pre \o <<FetchCall(lat, lon)>>
        label == IF last.label # "" THEN last.label
                 ELSE IF TruthyStr(full_address) THEN full_address.s ELSE city
    IN  IF prayer_times.truthy
        THEN IF prayer_times.t = "dict"
             THEN Done(called \o <<ReplyReport(label, ReportLines(prayer_times.items)),
                                   LocationPrompt>>, {LOCATION})
             ELSE Raised(called)
        ELSE Done(called \o <<Reply("unavailable", ""), LocationPrompt>>, {LOCATION})

FetchAndReportRetry(pre, latitude, longitude, full_address, city, resp) ==
    LET prayer_times == get_prayer_times(resp)
        called == pre \o <<FetchCall(latitude, longitude)>>
        label == IF TruthyStr(full_address) THEN full_address.s ELSE city
    IN  IF prayer_times.truthy
        THEN IF prayer_times.t = "dict"
             THEN Done(called \o <<ReplyReport(label, ReportLines(prayer_times.items)),
                                   LocationPrompt>>, {LOCATION})
             ELSE Raised(called)
        ELSE Done(called \o <<FetchCall(latitude, longitude),
                              Reply("unavailable", ""), LocationPrompt>>, {LOCATION})

\* from "# Get prayer times" to the end of location_handler
FetchAndReport(pre, latitude, longitude, full_address, city, resp) ==
    LET prayer_times == get_prayer_times(resp)
        called == pre \o <<FetchCall(latitude, longitude)>>
        label == IF TruthyStr(full_address) THEN full_address.s ELSE city
    IN  IF prayer_times.truthy
        THEN IF prayer_times.t = "dict"
             THEN Done(called \o <<ReplyReport(label, ReportLines(prayer_times.items)),
                                   LocationPrompt>>, {LOCATION})
             \* .items() of a list, a string or a number raises AttributeError
             ELSE Raised(called)
        ELSE Done(called \o <<Reply("unavailable", ""), LocationPrompt>>, {LOCATION})

\* the branch of a shared location
SharedLocation(lat, lon, rev, resp) ==
    LET latitude == PyFloat(lat)
        longitude == PyFloat(lon)
        called == <<ReverseCall(latitude, longitude)>>
    IN  IF rev.kind = "result"
        THEN FetchAndReport(called, latitude, longitude, PyStr(rev.address),
                            IF rev.hasCity THEN rev.city ELSE UnknownCity, resp)
        \* reverse() raised, or returned None and location_info.raw raises
        ELSE Raised(called)

TextInputEndsOnEmpty(raw, geo, resp) ==
    LET text == Strip(raw)
        called == <<GeocodeCall(Str(text))>>
        r == get_location_coordinates(geo)
    IN  IF text = <<>>
        THEN Done(<<Reply("empty_input", "")>>, {LOCATION + 1})
        ELSE IF NotFound(r.lat, r.lon)
        THEN Done(called \o <<Reply("not_found", "")>>, {LOCATION})
        ELSE FetchAndReport(called, r.lat, r.lon, r.address, Str(text), resp)

\* the branch of a text message
TextInput(raw, geo, resp) ==
    LET text == Strip(raw)
        called == <<GeocodeCall(Str(text))>>
        r == get_location_coordinates(geo)
    IN  IF text = <<>>
        THEN Done(<<Reply("empty_input", "")>>, {LOCATION})
        ELSE IF r.raised
        THEN Raised(called)
        ELSE IF NotFound(r.lat, r.lon)
        THEN Done(called \o <<Reply("not_found", "")>>, {LOCATION})
        ELSE FetchAndReport(called, r.lat, r.lon, r.address, Str(text), resp)

location_handler(upd, geo, rev, resp) ==
    IF upd.kind = "location"
    THEN SharedLocation(upd.lat, upd.lon, rev, resp)
    ELSE TextInput(upd.text, geo, resp)

----------------------------------------------------------------------------
(* Dispatch: the ConversationHandler and the stand-alone /help handler *)

NoUpdate == [kind |-> "none", user |-> "", text |-> <<>>, lat |-> 0, lon |-> 0]

Updates ==
    [kind : {"start", "help"}, user : Users, text : {<<>>}, lat : {0}, lon : {0}]
    \cup [kind : {"text"}, user : Users, text : Texts, lat : {0}, lon : {0}]
    \cup [kind : {"location"}, user : Users, text : {<<>>}, lat : Lats, lon : Lons]

\* the conversation state of a user, {} when the user has none
StateOf(u) == IF u \in DOMAIN conversations THEN {conversations[u]} ELSE {}

HandlerForAnyState(upd) ==
    CASE upd.kind = "start" /\ StateOf(upd.user) = {} -> "start"
      [] upd.kind \in {"location", "text"} -> "location_handler"
      [] upd.kind = "help" -> "help_command"
      [] OTHER -> "none"

\* the handler the application runs for an update: the entry point when the
\* user has no conversation, else the state's handlers and then the fallback;
\* the stand-alone /help handler when the ConversationHandler has none
HandlerFor(upd) ==
    IF StateOf(upd.user) = {}
    THEN CASE upd.kind = "start" -> "start"
           [] upd.kind = "help" -> "help_command"
           [] OTHER -> "none"
    ELSE CASE upd.kind \in {"location", "text"} /\ StateOf(upd.user) = {LOCATION} ->
                "location_handler"
           [] upd.kind = "help" -> "help_command"
           [] OTHER -> "none"

Has(trace, ev) == \E i \in 1..Len(trace) : trace[i].ev = ev

NoRound ==
    [user |-> "", kind |-> "none", text |-> <<>>, lat |-> 0, lon |-> 0,
     before |-> {}, handler |-> "none", trace |-> <<>>, fault |-> FALSE,
     geo |-> NoGeo, rev |-> NoRev, resp |-> NoResp]

\* the record of a processed update; an outcome is kept only if it was asked for
RoundOf(upd, handler, res, geo, rev, resp) ==
    [user |-> upd.user, kind |-> upd.kind, text |-> upd.text, lat |-> upd.lat,
     lon |-> upd.lon, before |-> StateOf(upd.user), handler |-> handler,
     trace |-> res.trace, fault |-> res.fault,
     geo |-> IF Has(res.trace, "geocode") THEN geo ELSE NoGeo,
     rev |-> IF Has(res.trace, "reverse") THEN rev ELSE NoRev,
     resp |-> IF Has(res.trace, "fetch") THEN resp ELSE NoResp]

\* the conversation table after a handler of the ConversationHandler returned:
\* a returned state is stored, None or an exception leaves the table alone
Stored(u, res) ==
    IF res.ret = {} THEN conversations
    ELSE [v \in DOMAIN conversations \cup {u} |->
            IF v = u THEN CHOOSE s \in res.ret : TRUE ELSE conversations[v]]

\* what an earlier round fetched and reported, none before the first fetch
NoLast ==
    [kind |-> "none", text |-> <<>>, lat |-> PyNone, lon |-> PyNone, label |-> ""]

\* what the round just ended fetched and reported; `last` if it fetched nothing
LastOf(r) ==
    LET fetches == {i \in 1..Len(r.trace) : r.trace[i].ev = "fetch"}
        reports == {i \in 1..Len(r.trace) :
                        r.trace[i].ev = "reply" /\ r.trace[i].id = "report"}
    IN  IF fetches = {} THEN last
        ELSE LET f == r.trace[CHOOSE i \in fetches : TRUE]
             IN  [kind |-> r.kind, text |-> r.text, lat |-> f.lat, lon |-> f.lon,
                  label |-> IF reports = {} THEN ""
                            ELSE r.trace[CHOOSE i \in reports : TRUE].text]

----------------------------------------------------------------------------
(* Actions *)

Init ==
    /\ conversations = <<>>
    /\ update = NoUpdate
    /\ round = NoRound
    /\ last = NoLast
    /\ running = <<>>
    /\ outbox = <<>>
    /\ nrounds = 0

\* run_polling delivers the next update; its round starts with an empty log
Poll ==
    /\ update = NoUpdate
    /\ update' \in Updates
    /\ round' = NoRound
    /\ UNCHANGED <<conversations, last, stepvars>>

Start ==
    /\ update # NoUpdate
    /\ HandlerFor(update) = "start"
    /\ round' = RoundOf(update, "start", start, NoGeo, NoRev, NoResp)
    /\ conversations' = Stored(update.user, start)
    /\ update' = NoUpdate
    /\ UNCHANGED <<last, stepvars>>

\* location_handler, with the outside world answering from the given sets
LocationHandlerOn(geos, revs, resps) ==
    /\ update # NoUpdate
    /\ HandlerFor(update) = "location_handler"
    /\ \E geo \in geos, rev \in revs, resp \in resps :
         LET res == location_handler(update, geo, rev, resp)
         IN  /\ round' = RoundOf(update, "location_handler", res, geo, rev, resp)
             /\ conversations' = Stored(update.user, res)
    /\ update' = NoUpdate
    /\ UNCHANGED <<last, stepvars>>

LocationHandler == LocationHandlerOn(GeoOutcomes, RevOutcomes, RespOutcomes)

\* /help, as the conversation's fallback or through the stand-alone handler
HelpCommand ==
    /\ update # NoUpdate
    /\ HandlerFor(update) = "help_command"
    /\ round' = RoundOf(update, "help_command", help_command, NoGeo, NoRev, NoResp)
    /\ conversations' = IF StateOf(update.user) = {} THEN conversations
                        ELSE Stored(update.user, help_command)
    /\ update' = NoUpdate
    /\ UNCHANGED <<last, stepvars>>

\* no handler matches: the update is dropped
Unhandled ==
    /\ update # NoUpdate
    /\ HandlerFor(update) = "none"
    /\ round' = RoundOf(update, "none", Done(<<>>, {}), NoGeo, NoRev, NoResp)
    /\ update' = NoUpdate
    /\ UNCHANGED <<conversations, last, stepvars>>

Next == Poll \/ Start \/ LocationHandler \/ HelpCommand \/ Unhandled

Spec == Init /\ [][Next]_vars

----------------------------------------------------------------------------
(* One user's rounds one after the other, the earlier round remembered *)

RoundTripUpdates == {u \in Updates : u.user = "u1"}

\* two places with different coordinates, or no match
RoundTripGeo ==
    {[kind |-> "none", lat |-> 0, lon |-> 0, address |-> ""]}
    \cup [kind : {"match"}, lat : {41, 48}, lon : {-74, 2}, address : Addresses]

RoundTripRev == {r \in RevOutcomes : r.kind = "result"}

RoundTripResp ==
    {[kind |-> "http_error", timings |-> JsonNull]}
    \cup {[kind |-> "ok", timings |-> JsonDict(
                [i \in 1..Len(ks) |-> <<ks[i], TimeOf(1, ks[i])>>])] :
            ks \in {<<"Fajr", "Sunrise", "Dhuhr", "Asr", "Maghrib", "Isha", "Imsak">>}}

\* run_polling delivers the next update; what the round before fetched and
\* reported is remembered
PollRemember ==
    /\ update = NoUpdate
    /\ update' \in RoundTripUpdates
    /\ last' = LastOf(round)
    /\ round' = NoRound
    /\ UNCHANGED <<conversations, stepvars>>

LocationHandlerRoundTrip == LocationHandlerOn(RoundTripGeo, RoundTripRev, RoundTripResp)

NextRoundTrip ==
    PollRemember \/ Start \/ LocationHandlerRoundTrip \/ HelpCommand \/ Unhandled

SpecRoundTrip == Init /\ [][NextRoundTrip]_vars

----------------------------------------------------------------------------
(* A handler call by call: the application runs the handler of an update,  *)
(* which issues its calls and replies one after the other and then returns *)

StepUpdates ==
    {u \in Updates :
        \/ u.kind \in {"start", "help"}
        \/ u.kind = "text" /\ u.text = <<"a">>
        \/ u.kind = "location" /\ u.lat = 48 /\ u.lon = -74}

StepGeo ==
    {[kind |-> "none", lat |-> 0, lon |-> 0, address |-> ""],
     [kind |-> "match", lat |-> 48, lon |-> 2, address |-> "Paris, France"]}

StepRev ==
    {[kind |-> "raise", hasCity |-> FALSE, city |-> "", address |-> ""],
     [kind |-> "result", hasCity |-> TRUE, city |-> "Paris", address |-> ""]}

StepResp ==
    {[kind |-> "http_error", timings |-> JsonNull],
     [kind |-> "ok", timings |-> JsonDict(<<<<"Fajr", "05:00">>, <<"Imsak", "04:50">>>>)]}

\* what the handler of an update does
ResultOf(upd, geo, rev, resp) ==
    CASE HandlerFor(upd) = "start" -> start
      [] HandlerFor(upd) = "location_handler" -> location_handler(upd, geo, rev, resp)
      [] HandlerFor(upd) = "help_command" -> help_command
      [] OTHER -> Done(<<>>, {})

CanDispatchConcurrently == TRUE

\* the application is built without concurrent updates and the handlers block:
\* the next update is processed when the handler of the one before returned
CanDispatch == DOMAIN running = {}

Dispatch ==
    /\ CanDispatch
    /\ nrounds < MaxRounds
    /\ \E upd \in StepUpdates, geo \in StepGeo, rev \in StepRev, resp \in StepResp :
         LET res == ResultOf(upd, geo, rev, resp)
             n == nrounds + 1
         IN  running' = [m \in DOMAIN running \cup {n} |->
                            IF m = n
                            THEN [user |-> upd.user, script |-> res.trace, pos |-> 0,
                                  ret |-> res.ret]
                            ELSE running[m]]
    /\ nrounds' = nrounds + 1
    /\ UNCHANGED <<conversations, update, round, last, outbox>>

\* the handler in progress issues its next call (the one before has
\* returned) or sends its next reply
Step ==
    /\ \E n \in DOMAIN running :
         LET r == running[n]
             e == r.script[r.pos + 1]
         IN  /\ r.pos < Len(r.script)
             /\ running' = [running EXCEPT ![n].pos = r.pos + 1]
             /\ outbox' = IF e.ev = "reply"
                          THEN Append(outbox, [n |-> n, user |-> r.user, id |-> e.id])
                          ELSE outbox
    /\ UNCHANGED <<conversations, update, round, last, nrounds>>

\* the handler returns or raises; the ConversationHandler stores a returned state
Finish ==
    /\ \E n \in DOMAIN running :
         LET r == running[n]
         IN  /\ r.pos = Len(r.script)
             /\ conversations' = Stored(r.user, r)
             /\ running' = [m \in DOMAIN running \ {n} |-> running[m]]
    /\ UNCHANGED <<update, round, last, outbox, nrounds>>

NextSteps == Dispatch \/ Step \/ Finish

SpecSteps == Init /\ [][NextSteps]_vars

----------------------------------------------------------------------------
(* Reading a round's log *)

IsReply(e, id) == e.ev = "reply" /\ e.id = id

Emitted(id) == \E i \in 1..Len(round.trace) : IsReply(round.trace[i], id)

Called(ev) == Has(round.trace, ev)

CountReplies(id) ==
    Cardinality({i \in 1..Len(round.trace) : IsReply(round.trace[i], id)})

LastIsLocationPrompt ==
    /\ round.trace # <<>>
    /\ round.trace[Len(round.trace)] = Reply("location_prompt", "share_keyboard")

\* a text or location-share event handled in AwaitingLocation
InAwaitingLocation(kind) ==
    /\ round.handler = "location_handler"
    /\ round.kind = kind
    /\ round.before = {LOCATION}

StillAwaitingLocation == StateOf(round.user) = {LOCATION}

Blank(text) == \A i \in 1..Len(text) : text[i] \in Whitespace

\* the fetch was called with exactly these coordinates
FetchedWith(lat, lon) ==
    \E i \in 1..Len(round.trace) :
        round.trace[i] = FetchCall(PyFloat(lat), PyFloat(lon))

TheReport ==
    round.trace[CHOOSE i \in 1..Len(round.trace) : IsReply(round.trace[i], "report")]

----------------------------------------------------------------------------
(* Claims *)

\* C1: every location share handled in AwaitingLocation proceeds to the
\* prayer-time fetch with the shared coordinates unchanged, whatever the
\* reverse lookup does; when the reverse lookup raises or returns nothing the
\* report is labelled "Unknown City"; the round never ends not-found.
C1_ShareAlwaysResolves ==
    InAwaitingLocation("location") =>
        /\ FetchedWith(round.lat, round.lon)
        /\ ~Emitted("not_found")
        /\ (round.rev.kind \in {"raise", "none"} /\ Emitted("report")
                => TheReport.text = UnknownCity)

\* C2 (as claimed): after every round that ends not-found, unavailable or with
\* a report, the location prompt is the last message of the round and the
\* session is in AwaitingLocation; the empty-input round has no location prompt.
C2_PromptAfterEveryOutcome ==
    round.handler = "location_handler" =>
        /\ (Emitted("not_found") \/ Emitted("unavailable") \/ Emitted("report"))
                => LastIsLocationPrompt /\ StillAwaitingLocation
        /\ Emitted("empty_input") => ~Emitted("location_prompt")

\* C2 (amended): after every round in which the fetch is answered (retry-later
\* message or report), the location prompt is emitted once, as the last message,
\* and the session is in AwaitingLocation; a round that ends not-found emits
\* the guidance message alone after its geocoding call and the empty-input
\* round the validation prompt alone, both with no location prompt, and both
\* leave the session in AwaitingLocation.
C2_PromptAfterFetchOutcome ==
    round.handler = "location_handler" =>
        /\ (Emitted("unavailable") \/ Emitted("report")) =>
                /\ LastIsLocationPrompt
                /\ CountReplies("location_prompt") = 1
                /\ StillAwaitingLocation
        /\ Emitted("not_found") =>
                /\ round.trace[Len(round.trace)] = Reply("not_found", "")
                /\ ~Emitted("location_prompt")
                /\ StillAwaitingLocation
        /\ Emitted("empty_input") =>
                /\ round.trace = <<Reply("empty_input", "")>>
                /\ StillAwaitingLocation

C2_Witness ==
    /\ round.handler = "location_handler"
    /\ Emitted("report")
    /\ LastIsLocationPrompt
    /\ Len(TheReport.lines) > 0

\* the object under data.timings that this round's fetch returned
FetchedItems == round.resp.timings.items

NamesOf(lines) == [i \in 1..Len(lines) |-> lines[i][1]]

\* the place of an entry in the fetched object (its keys are distinct)
PlaceOf(entry) == CHOOSE i \in 1..Len(FetchedItems) : FetchedItems[i] = entry

C4_MatchIsResolved ==
    InAwaitingLocation("text") /\ round.geo.kind = "match" =>
        /\ FetchedWith(round.geo.lat, round.geo.lon)
        /\ ~Emitted("not_found")

\* C5: whenever the fetch meets a transport error, an error status or a body
\* without a well-formed data.timings mapping, the round emits the retry-later
\* message, emits no report and does not fault.
C5_MalformedIsUnavailable ==
    round.handler = "location_handler" /\ Called("fetch")
    /\ (round.resp.kind # "ok" \/ round.resp.timings.t # "dict") =>
        /\ ~round.fault
        /\ Emitted("unavailable")
        /\ ~Emitted("report")

\* C6: a text that is empty or only whitespace, received in AwaitingLocation,
\* causes no geocoding call and no fetch call; the round's only output is the
\* validation prompt and the session stays in AwaitingLocation.
C6_BlankTextShortCircuits ==
    InAwaitingLocation("text") /\ Blank(round.text) =>
        /\ round.trace = <<Reply("empty_input", "")>>
        /\ ~round.fault
        /\ StillAwaitingLocation

C6_Witness ==
    /\ InAwaitingLocation("text")
    /\ Blank(round.text)
    /\ Len(round.text) > 0
    /\ Emitted("empty_input")

\* C7: when the forward lookup finds no match for a non-blank text, the round
\* emits the not-found guidance, calls no fetch, and the session stays in
\* AwaitingLocation.
C7_MissGivesGuidance ==
    InAwaitingLocation("text") /\ round.geo.kind = "none" =>
        /\ Emitted("not_found")
        /\ ~Called("fetch")
        /\ ~round.fault
        /\ StillAwaitingLocation

C7_Witness ==
    /\ InAwaitingLocation("text")
    /\ round.geo.kind = "none"
    /\ Emitted("not_found")

\* C8: when the forward lookup raises, nothing propagates: the round is the
\* round of a miss for the same query (one geocoding call, then the not-found
\* guidance alone, no fetch) and the session stays in AwaitingLocation.
C8_RaiseIsAMiss ==
    InAwaitingLocation("text") /\ round.geo.kind = "raise" =>
        /\ ~round.fault
        /\ round.trace = location_handler(
                [kind |-> "text", user |-> round.user, text |-> round.text,
                 lat |-> 0, lon |-> 0],
                [round.geo EXCEPT !.kind = "none"], NoRev, NoResp).trace
        /\ round.trace =
                <<GeocodeCall(Str(Strip(round.text))), Reply("not_found", "")>>
        /\ StillAwaitingLocation

C8_Witness ==
    /\ InAwaitingLocation("text")
    /\ round.geo.kind = "raise"
    /\ Emitted("not_found")

\* C9: once a user's session is in AwaitingLocation it is in AwaitingLocation
\* after every step, whatever the event and whatever the geocoder and the fetch
\* answer; a session is created only by /start and only in AwaitingLocation.
C9_AlwaysAwaitingLocation ==
    [][\A u \in Users :
        /\ StateOf(u) = {LOCATION} => StateOf(u)' = {LOCATION}
        /\ StateOf(u) = {} /\ StateOf(u)' # {} =>
                StateOf(u)' = {LOCATION} /\ update.kind = "start"]_vars

\* a round that faulted with the session still in AwaitingLocation
C9_Witness ==
    /\ round.handler = "location_handler"
    /\ round.fault
    /\ StillAwaitingLocation

\* C10: a help command, with no session or in AwaitingLocation, is answered
\* with the help message alone, makes no geocoding and no fetch call, and
\* leaves every user's session as it was.
C10_HelpIsSideChannel ==
    [][update.kind = "help" =>
        /\ round'.handler = "help_command"
        /\ round'.trace = <<Reply("help", "")>>
        /\ ~round'.fault
        /\ conversations' = conversations]_vars

C10_Witness ==
    /\ round.kind = "help"
    /\ round.before = {LOCATION}
    /\ Emitted("help")

\* C11: every /start, with no session or in AwaitingLocation, is answered
\* with the welcome prompt carrying the share-location keyboard, and the
\* session is then in AwaitingLocation.
C11_StartAlwaysWelcomes ==
    round.kind = "start" =>
        /\ round.trace = <<Reply("welcome", "share_keyboard")>>
        /\ StillAwaitingLocation

\* C12: every text or location share received in AwaitingLocation is answered
\* by at least one message, does not fault the handler, and leaves the session
\* in AwaitingLocation, whatever the geocoder and the fetch answer.
C12_EveryRoundAnswered ==
    InAwaitingLocation("text") \/ InAwaitingLocation("location") =>
        /\ ~round.fault
        /\ \E i \in 1..Len(round.trace) : round.trace[i].ev = "reply"
        /\ StillAwaitingLocation

FetchCalls == {i \in 1..Len(round.trace) : round.trace[i].ev = "fetch"}

LookupCalls == {i \in 1..Len(round.trace) : round.trace[i].ev \in {"geocode", "reverse"}}

\* C14: whenever the fetch is called, on the text path or the share path, the
\* latitude and the longitude passed to it are both floats, never None.
C14_FetchHasBothCoordinates ==
    \A i \in FetchCalls :
        round.trace[i].lat.t = "float" /\ round.trace[i].lon.t = "float"

C14_Witness ==
    /\ InAwaitingLocation("text")
    /\ FetchCalls # {}
    /\ C14_FetchHasBothCoordinates

\* C16: a round makes at most one geocoding call (forward or reverse) and at
\* most one fetch call; after the not-found guidance or the retry-later
\* message the round makes no further call; rounds other than those of
\* location_handler make no call at all.
C16_NoAutomaticRetry ==
    /\ Cardinality(LookupCalls) <= 1
    /\ Cardinality(FetchCalls) <= 1
    /\ \A i \in 1..Len(round.trace) :
         IsReply(round.trace[i], "not_found") \/ IsReply(round.trace[i], "unavailable")
            => \A j \in (i + 1)..Len(round.trace) : round.trace[j].ev = "reply"
    /\ round.handler # "location_handler" => LookupCalls = {} /\ FetchCalls = {}

\* a fetch that failed and was answered with the retry-later message
C16_Witness ==
    /\ round.handler = "location_handler"
    /\ round.resp.kind = "transport_error"
    /\ Cardinality(FetchCalls) = 1
    /\ Emitted("unavailable")

\* C17: no key of the fetched schedule other than the six canonical names
\* (Imsak, for one) appears in the report.
C17_OtherKeysDropped ==
    Emitted("report") =>
        \A j \in 1..Len(TheReport.lines) :
            TheReport.lines[j][1] \in CanonicalPrayers

\* a report of a schedule that holds Imsak
C17_Witness ==
    /\ Emitted("report")
    /\ \E i \in 1..Len(FetchedItems) : FetchedItems[i][1] = "Imsak"
    /\ Len(TheReport.lines) > 0

\* C18: a text or a location share of a user with no session is not handled:
\* no geocoding call, no fetch call, no message, and no session is created.
C18_NoSessionNoRound ==
    round.kind \in {"text", "location"} /\ round.before = {} =>
        /\ round.handler = "none"
        /\ round.trace = <<>>
        /\ StateOf(round.user) = {}

C18_Witness ==
    /\ round.kind = "location"
    /\ round.before = {}
    /\ round.user \notin DOMAIN conversations
    /\ DOMAIN conversations # {}

\* C19: a round that calls the fetch is, in order: one geocoding call (forward
\* or reverse) that returned a result, the fetch call, exactly one of report
\* and retry-later message, and the location prompt.
C19_RoundOrder ==
    round.handler = "location_handler" /\ FetchCalls # {} =>
        /\ Len(round.trace) = 4
        /\ round.trace[1].ev \in {"geocode", "reverse"}
        /\ round.geo.kind = "match" \/ round.rev.kind = "result"
        /\ round.trace[2].ev = "fetch"
        /\ IsReply(round.trace[3], "report") \/ IsReply(round.trace[3], "unavailable")
        /\ round.trace[4] = LocationPrompt

\* the coordinates this round obtained: the forward lookup's for a text, the
\* shared ones for a location share
OwnCoordinates ==
    IF round.kind = "text"
    THEN <<PyFloat(round.geo.lat), PyFloat(round.geo.lon)>>
    ELSE <<PyFloat(round.lat), PyFloat(round.lon)>>

\* the label this round obtained: the address if it has one, else the typed
\* text or the city of the reverse lookup
OwnLabel ==
    IF round.kind = "text"
    THEN IF round.geo.address # "" THEN round.geo.address ELSE Str(Strip(round.text))
    ELSE IF round.rev.address # "" THEN round.rev.address
         ELSE IF round.rev.hasCity THEN round.rev.city ELSE UnknownCity

TheFetch == round.trace[CHOOSE i \in FetchCalls : TRUE]

\* C13: the coordinates passed to the fetch, and the label of the report, are
\* those obtained in the same round; when the round before fetched other
\* coordinates or reported another label, this round uses neither.
C13_NoLeakBetweenRounds ==
    round.handler = "location_handler" /\ FetchCalls # {} =>
        /\ round.kind = "text" => round.geo.kind = "match"
        /\ <<TheFetch.lat, TheFetch.lon>> = OwnCoordinates
        /\ <<last.lat, last.lon>> # OwnCoordinates =>
                <<TheFetch.lat, TheFetch.lon>> # <<last.lat, last.lon>>
        /\ Emitted("report") =>
                /\ TheReport.text = OwnLabel
                /\ last.label # OwnLabel => TheReport.text # last.label

\* a text round that reports city B right after a text round reported city A
C13_Witness ==
    /\ round.kind = "text"
    /\ Emitted("report")
    /\ last.kind = "text"
    /\ Strip(last.text) # Strip(round.text)
    /\ last.label # ""
    /\ last.label # TheReport.text
    /\ last.lat # TheFetch.lat
    /\ last.lon # TheFetch.lon

\* the rounds of a user in progress
RoundsOf(u) == {n \in DOMAIN running : running[n].user = u}

\* the rounds of a user with a call of one of these kinds issued and not returned
InFlight(u, evs) ==
    {n \in RoundsOf(u) :
        /\ running[n].pos >= 1
        /\ running[n].script[running[n].pos].ev \in evs}

\* C15: the rounds of one user never overlap: at most one round of the user is
\* in progress, so at most one geocoding call and at most one fetch call of
\* the user is in flight, and in the replies sent to the user no reply of one
\* round stands between two replies of another.
C15_RoundsDoNotOverlap ==
    \A u \in Users :
        /\ Cardinality(RoundsOf(u)) <= 1
        /\ Cardinality(InFlight(u, {"geocode", "reverse"})) <= 1
        /\ Cardinality(InFlight(u, {"fetch"})) <= 1
        /\ \A i, j, k \in 1..Len(outbox) :
             /\ i < j /\ j < k
             /\ outbox[i].user = u /\ outbox[j].user = u /\ outbox[k].user = u
             /\ outbox[i].n = outbox[k].n
             => outbox[j].n = outbox[i].n

\* a fetch of a user in flight after an earlier round of the same user replied
C15_Witness ==
    \E u \in Users :
        /\ InFlight(u, {"fetch"}) # {}
        /\ \E i \in 1..Len(outbox) :
             outbox[i].user = u /\ outbox[i].id \in {"report", "unavailable", "not_found"}

====
